---- MODULE Spec2Model ----
\* Klotski solver (src/src/components/try.cpp): canonicalization of board
\* arrangements, exhaustive construction of the move graph, multi-source
\* breadth-first solution map and path reconstruction.
EXTENDS Integers, Sequences, FiniteSets, TLC

VARIABLES
  pc,                 \* position of main(): which call is running
  initial,            \* main's |initial| (never modified: passed by value)
  labels,             \* GenerateGraph's |labels|
  graph,              \* Graph: vertex -> set of neighbors
  states_to_explore,  \* GenerateGraph's work-set (std::set<State>)
  queue,              \* Solve's FIFO frontier (std::queue<State>)
  solution,           \* Solution: vertex -> next step
  it,                 \* Print's iterator: an entry of |solution| or End
  printed,            \* boards written to cout by Print
  derefs,             \* number of reads through an end() iterator so far
  deviated,           \* history: some removal from the work-set was not *begin()
  narg,               \* argument of a stand-alone Normalize call
  nres,               \* results of the stand-alone Normalize calls
  pushes              \* history: every state Solve pushed, in push order

vars == <<pc, initial, labels, graph, states_to_explore, queue, solution,
          it, printed, derefs, deviated, narg, nres, pushes>>

----------------------------------------------------------------------------
\* Bounds of the model.

\* Number of starting arrangements (prefix of Boards) main is run on.
NumInitial == 4
\* Number of starting arrangements (prefix of SmallBoards) explored under
\* every removal order.
NumAnyOrder == 2
\* Number of starting arrangements (prefix of SmallBoards) main is run on
\* under fairness.
NumSmall == 5
\* Stand-alone Normalize inputs have their blocks within the first NormCells cells.
NormCells == 5
\* Reads through an end() iterator followed before the run is cut off.
MaxDerefs == 2

----------------------------------------------------------------------------
\* Board geometry and characters.

Width == 4
Size == 20
Empty == 32                     \* ' '
Cells == 0 .. (Size - 1)

\* A State given row by row as digits: 0 is ' ', d is the character '0'+d.
FromDigits(seq) == [i \in Cells |-> IF seq[i + 1] = 0 THEN Empty ELSE 48 + seq[i + 1]]

\* Two 1x4 uprights and the 2x2 block, labelled out of scan order.
Uprights == FromDigits(<< 3,1,1,2,  3,1,1,2,  3,0,0,2,  3,0,0,2,  0,0,0,0 >>)
\* The 2x2 block shut in above a 4x1 bar: no solved state is reachable.
ShutIn == FromDigits(<< 1,1,0,0,  1,1,0,0,  2,2,2,2,  0,0,0,0,  0,0,0,0 >>)

\* The starting arrangements main is run on.
Boards ==
  << Uprights,
     ShutIn,
     \* the 2x2 block, two 1x3 uprights and two 2x1 bars: twenty slides to solve
     FromDigits(<< 1,1,0,0,  1,1,0,0,  2,3,0,0,  2,3,4,4,  2,3,5,5 >>),
     \* a 4x2 slab, the 2x2 block and two interchangeable 1x1 blocks
     FromDigits(<< 1,1,1,1,  1,1,1,1,  2,2,3,4,  2,2,0,0,  0,0,0,0 >>),
     \* the 2x2 block and one 1x1 block
     FromDigits(<< 1,0,2,2,  0,0,2,2,  0,0,0,0,  0,0,0,0,  0,0,0,0 >>) >>

\* Starting arrangements with few reachable states.
SmallBoards ==
  << \* the 2x2 block alone
     FromDigits(<< 1,1,0,0,  1,1,0,0,  0,0,0,0,  0,0,0,0,  0,0,0,0 >>),
     \* the 2x2 block above a 4x2 slab, labelled out of scan order
     FromDigits(<< 0,2,2,0,  0,2,2,0,  0,0,0,0,  1,1,1,1,  1,1,1,1 >>),
     \* a 3x3 block alone
     FromDigits(<< 1,1,1,0,  1,1,1,0,  1,1,1,0,  0,0,0,0,  0,0,0,0 >>),
     Uprights,
     ShutIn,
     \* a 3x2 block alone
     FromDigits(<< 1,1,1,0,  1,1,1,0,  0,0,0,0,  0,0,0,0,  0,0,0,0 >>) >>

Directions == {"LEFT", "RIGHT", "TOP", "BOTTOM"}

Opposite(direction) ==
  CASE direction = "LEFT" -> "RIGHT"
    [] direction = "RIGHT" -> "LEFT"
    [] direction = "TOP" -> "BOTTOM"
    [] direction = "BOTTOM" -> "TOP"

AllEmpty == [i \in Cells |-> Empty]

\* An empty std::map.
NoMap == [s \in {} |-> s]

\* map::find: the entry of key k, or the past-the-end iterator.
End == [end |-> TRUE, first |-> AllEmpty, second |-> AllEmpty]
Find(m, k) ==
  IF k \in DOMAIN m THEN [end |-> FALSE, first |-> k, second |-> m[k]] ELSE End

----------------------------------------------------------------------------
\* std::array<char,20>::operator< and the iteration order of std::set<State>.

StateLess(a, b) ==
  \E i \in Cells : a[i] < b[i] /\ \A j \in 0 .. (i - 1) : a[j] = b[j]

MinState(S) == CHOOSE s \in S : \A t \in S : t = s \/ StateLess(s, t)

RECURSIVE SortStates(_)
SortStates(S) ==
  IF S = {} THEN << >>
  ELSE LET m == MinState(S) IN << m >> \o SortStates(S \ {m})

\* std::set<char> in iteration order.
RECURSIVE SortLabels(_)
SortLabels(L) ==
  IF L = {} THEN << >>
  ELSE LET m == CHOOSE x \in L : \A y \in L : x <= y
       IN << m >> \o SortLabels(L \ {m})

----------------------------------------------------------------------------
\* Normalize

\* Mutant: the inner loop starts at cell i+1.
SwapLabelsFromNext(state, i, c, lab) ==
  [j \in Cells |->
     IF j <= i THEN state[j]
     ELSE IF state[j] = c THEN lab
     ELSE IF state[j] = lab THEN c
     ELSE state[j]]

\* Mutant: c is replaced by the cursor's label, but not the other way round.
SwapLabelsOneWay(state, i, c, lab) ==
  [j \in Cells |->
     IF j < i THEN state[j]
     ELSE IF state[j] = c THEN lab
     ELSE state[j]]

\* The inner loop of Normalize: from cell i on, exchange the labels c and lab.
SwapLabels(state, i, c, lab) ==
  [j \in Cells |->
     IF j < i THEN state[j]
     ELSE IF state[j] = c THEN lab
     ELSE IF state[j] = lab THEN c
     ELSE state[j]]

\* The outer loop of Normalize with the cursor at ls[l] and the scan at cell i.
RECURSIVE NormalizeFrom(_, _, _, _)
NormalizeFrom(state, ls, l, i) ==
  IF i >= Size THEN state
  ELSE LET c == state[i] IN
    IF c = Empty THEN NormalizeFrom(state, ls, l, i + 1)
    ELSE IF c < ls[l] THEN NormalizeFrom(state, ls, l, i + 1)
    ELSE IF c = ls[l]
      THEN IF l + 1 > Len(ls) THEN state
           ELSE NormalizeFrom(state, ls, l + 1, i + 1)
    ELSE LET swapped == SwapLabels(state, i, c, ls[l]) IN
           IF l + 1 > Len(ls) THEN swapped
           ELSE NormalizeFrom(swapped, ls, l + 1, i + 1)

Normalize(state, L) == NormalizeFrom(state, SortLabels(L), 1, 0)

GatherLabels(state) == {state[i] : i \in Cells} \ {Empty}

----------------------------------------------------------------------------
\* Move geometry

IsEdge(direction, index) ==
  CASE direction = "LEFT" -> index % Width = 0
    [] direction = "RIGHT" -> index % Width = 3
    [] direction = "TOP" -> index < 4
    [] direction = "BOTTOM" -> index > 15

Move(direction, index) ==
  CASE direction = "LEFT" -> index - 1
    [] direction = "RIGHT" -> index + 1
    [] direction = "TOP" -> index - 4
    [] direction = "BOTTOM" -> index + 4

\* AddNeighbors' |indices|: the cells of block |label|.
Indices(current, label) == {i \in Cells : current[i] = label}

\* Mutant: only an empty adjacent cell lets a cell of the block through.
CanMoveOnlyEmpty(current, label, direction) ==
  \A i \in Indices(current, label) :
     /\ ~IsEdge(direction, i)
     /\ current[Move(direction, i)] = Empty

\* AddNeighbors' |canmove| after the loop over |indices|.
CanMove(current, label, direction) ==
  \A i \in Indices(current, label) :
     /\ ~IsEdge(direction, i)
     /\ LET neighbor == current[Move(direction, i)]
        IN ~(neighbor # Empty /\ neighbor # label)

\* Mutant: the block's cells are cleared after the shifted cells are written.
SlideClearLast(current, label, direction) ==
  LET indices == Indices(current, label)
      target  == {Move(direction, i) : i \in indices}
      written == [i \in Cells |-> IF i \in target THEN label ELSE current[i]]
  IN [i \in Cells |-> IF i \in indices THEN Empty ELSE written[i]]

\* AddNeighbors' |newstate| before it is normalized.
Slide(current, label, direction) ==
  LET indices == Indices(current, label)
      cleared == [i \in Cells |-> IF i \in indices THEN Empty ELSE current[i]]
      target  == {Move(direction, i) : i \in indices}
  IN [i \in Cells |-> IF i \in target THEN label ELSE cleared[i]]

\* Mutant: the loop over the directions leaves out BOTTOM.
NewStatesNoBottom(current, L) ==
  { Normalize(Slide(current, m[1], m[2]), L) :
      m \in {x \in L \X (Directions \ {"BOTTOM"}) : CanMove(current, x[1], x[2])} }

\* Mutant: |newstate| is stored as the slide left it, not normalized.
NewStatesRaw(current, L) ==
  { Slide(current, m[1], m[2]) :
      m \in {x \in L \X Directions : CanMove(current, x[1], x[2])} }

\* The normalized |newstate| of every (label, direction) that can move.
NewStates(current, L) ==
  { Normalize(Slide(current, m[1], m[2]), L) :
      m \in {x \in L \X Directions : CanMove(current, x[1], x[2])} }

\* Mutant: the edge is stored after the test for a known vertex, not before.
StoredNeighborsNew(g, news) == {n \in news : n \notin DOMAIN g}

\* What AddNeighbors stores as the neighbor set of |current|; |g| is the graph
\* with |current| already inserted.
StoredNeighbors(g, news) == news

\* Mutant: every neighbor is added to the work-set, known vertex or not.
PendingAll(g, news) == news

\* What AddNeighbors adds to the work-set.
Pending(g, news) == {n \in news : n \notin DOMAIN g}

\* The element AddNeighbors removes from the work-set: *begin().
Removed(explore) == MinState(explore)

----------------------------------------------------------------------------
\* GenerateGraph

\* One call of AddNeighbors that removes |current| from the work-set.
Expand(g, explore, L, current) ==
  LET g1   == (current :> {}) @@ g
      news == NewStates(current, L)
  IN [graph   |-> (current :> StoredNeighbors(g1, news)) @@ g,
      explore |-> (explore \ {current}) \cup Pending(g1, news)]

NoNormalize == [state |-> AllEmpty, labs |-> {}, perm |-> NoMap]
NoResult == [plain |-> AllEmpty, permuted |-> AllEmpty, again |-> AllEmpty]

Init ==
  /\ pc = "main"
  /\ initial \in {Boards[b] : b \in 1 .. NumInitial}
  /\ labels = {}
  /\ graph = NoMap
  /\ states_to_explore = {}
  /\ queue = << >>
  /\ solution = NoMap
  /\ it = End
  /\ printed = << >>
  /\ derefs = 0
  /\ deviated = FALSE
  /\ pushes = << >>
  /\ narg = NoNormalize
  /\ nres = NoResult

\* GenerateGraph up to its loop.
GenerateGraphStart ==
  /\ pc = "main"
  /\ pc' = "generate"
  /\ labels' = GatherLabels(initial)
  /\ graph' = NoMap
  /\ states_to_explore' = {Normalize(initial, GatherLabels(initial))}
  /\ UNCHANGED <<initial, queue, solution, it, printed, derefs, deviated, narg, nres, pushes>>

\* AddNeighbors when the element it removes from the work-set is |current|.
AddNeighborsOf(current) ==
  /\ IF current \in DOMAIN graph
       THEN \* assert(success) fails
            /\ pc' = "abort_insert"
            /\ states_to_explore' = states_to_explore \ {current}
            /\ UNCHANGED graph
       ELSE LET e == Expand(graph, states_to_explore, labels, current) IN
            /\ graph' = e.graph
            /\ states_to_explore' = e.explore
            /\ UNCHANGED pc
  /\ UNCHANGED <<initial, labels, queue, solution, it, printed, derefs, narg, nres, pushes>>

\* One iteration of GenerateGraph's loop.
AddNeighbors ==
  /\ pc = "generate"
  /\ states_to_explore # {}
  /\ AddNeighborsOf(Removed(states_to_explore))
  /\ UNCHANGED deviated

\* One iteration of the loop for a work-set that hands out any of its elements.
AddNeighborsAny ==
  /\ pc = "generate"
  /\ \E current \in states_to_explore :
       /\ AddNeighborsOf(current)
       /\ deviated' = (deviated \/ current # Removed(states_to_explore))

\* The loop of GenerateGraph ends and the graph is returned to main.
GenerateGraphReturn ==
  /\ pc = "generate"
  /\ states_to_explore = {}
  /\ pc' = "solve"
  /\ UNCHANGED <<initial, labels, graph, states_to_explore, queue, solution,
                 it, printed, derefs, deviated, narg, nres, pushes>>

\* GenerateGraph as a function of main's |initial|: the returned graph, or
\* ok = FALSE when assert(success) fails on the way.
RECURSIVE ExploreAll(_, _, _)
ExploreAll(g, explore, L) ==
  IF explore = {} THEN [ok |-> TRUE, graph |-> g]
  ELSE LET current == Removed(explore) IN
    IF current \in DOMAIN g THEN [ok |-> FALSE, graph |-> g]
    ELSE LET e == Expand(g, explore, L, current)
         IN ExploreAll(e.graph, e.explore, L)

GenerateGraph(board) ==
  LET L == GatherLabels(board)
  IN ExploreAll(NoMap, {Normalize(board, L)}, L)

----------------------------------------------------------------------------
\* Solve

\* Mutant: the four cells are only compared with each other.
IsSolvedNoEmptyTest(state) ==
  /\ state[13] = state[14]
  /\ state[14] = state[17]
  /\ state[17] = state[18]

IsSolved(state) ==
  /\ state[13] = state[14]
  /\ state[14] = state[17]
  /\ state[17] = state[18]
  /\ state[18] # Empty

Range(seq) == {seq[k] : k \in 1 .. Len(seq)}

\* Mutant: the loop stops at the first neighbor that is already mapped.
RECURSIVE UntilKnown(_, _)
UntilKnown(sol, seq) ==
  IF seq = << >> \/ Head(seq) \in DOMAIN sol THEN << >>
  ELSE << Head(seq) >> \o UntilKnown(sol, Tail(seq))
DiscoveredBreak(sol, nbrs) == UntilKnown(sol, SortStates(nbrs))

\* Mutant: every neighbor is inserted and pushed, known or not.
DiscoveredAll(sol, nbrs) == SortStates(nbrs)

\* The neighbors of the popped |state| that Solve inserts and pushes, in the
\* order of the loop over it->second.
Discovered(sol, nbrs) ==
  SelectSeq(SortStates(nbrs), LAMBDA n : n \notin DOMAIN sol)

\* Mutant: a discovered neighbor is mapped to itself, as the seeds are.
InsertedSelf(sol, state, fresh) == [n \in Range(fresh) |-> n] @@ sol

\* The map after the loop over the neighbors of the popped |state|.
Inserted(sol, state, fresh) == [n \in Range(fresh) |-> state] @@ sol

\* Mutant: the frontier is a stack: the next state popped is the last pushed.
PushedFront(q, fresh) == fresh \o Tail(q)

\* The frontier after the loop over the neighbors and the pop.
Pushed(q, fresh) == Tail(q) \o fresh

\* Solve's first loop: every solved vertex maps to itself and is queued.
SolveSeed ==
  /\ pc = "solve"
  /\ LET goals == {v \in DOMAIN graph : IsSolved(v)} IN
       /\ solution' = [v \in goals |-> v]
       /\ queue' = SortStates(goals)
       /\ pushes' = SortStates(goals)
  /\ pc' = "bfs"
  /\ UNCHANGED <<initial, labels, graph, states_to_explore, it, printed,
                 derefs, deviated, narg, nres>>

\* One iteration of Solve's second loop.  graph.find(state) is dereferenced
\* unchecked: for a state that is no vertex the read is undefined, and the
\* run either dies or reads some neighbor set.
SolveStep ==
  /\ pc = "bfs"
  /\ queue # << >>
  /\ LET state == Head(queue) IN
       \/ /\ state \in DOMAIN graph
          /\ LET fresh == Discovered(solution, graph[state]) IN
               /\ solution' = Inserted(solution, state, fresh)
               /\ queue' = Pushed(queue, fresh)
               /\ pushes' = pushes \o fresh
          /\ UNCHANGED pc
       \/ /\ state \notin DOMAIN graph
          /\ \/ pc' = "crashed" /\ UNCHANGED <<solution, queue, pushes>>
             \/ /\ queue' = Tail(queue)
                /\ UNCHANGED <<pc, solution, pushes>>
  /\ UNCHANGED <<initial, labels, graph, states_to_explore, it, printed,
                 derefs, deviated, narg, nres>>

\* The frontier is empty: assert(solution.size() == graph.size()) and return.
SolveReturn ==
  /\ pc = "bfs"
  /\ queue = << >>
  /\ pc' = IF Cardinality(DOMAIN solution) = Cardinality(DOMAIN graph)
             THEN "print" ELSE "abort_size"
  /\ UNCHANGED <<initial, labels, graph, states_to_explore, queue, solution,
                 it, printed, derefs, deviated, narg, nres, pushes>>

----------------------------------------------------------------------------
\* Print

\* main calls Print(initial, solution): the first lookup.
PrintStart ==
  /\ pc = "print"
  /\ it' = Find(solution, initial)
  /\ pc' = "print_first"
  /\ UNCHANGED <<initial, labels, graph, states_to_explore, queue, solution,
                 printed, derefs, deviated, narg, nres, pushes>>

\* cout << it->first
PrintFirst ==
  /\ pc = "print_first"
  /\ ~it.end
  /\ printed' = Append(printed, it.first)
  /\ pc' = "print_loop"
  /\ UNCHANGED <<initial, labels, graph, states_to_explore, queue, solution,
                 it, derefs, deviated, narg, nres, pushes>>

\* One test of the loop condition, and the body when it holds.
PrintLoop ==
  /\ pc = "print_loop"
  /\ ~it.end
  /\ IF it.first # it.second
       THEN /\ printed' = Append(printed, it.second)
            /\ it' = Find(solution, it.second)
            /\ UNCHANGED pc
       ELSE /\ pc' = "done"
            /\ UNCHANGED <<printed, it>>
  /\ UNCHANGED <<initial, labels, graph, states_to_explore, queue, solution,
                 derefs, deviated, narg, nres, pushes>>

\* What a read through the past-the-end iterator may yield.
Garbage == {AllEmpty, initial}

\* it->first or it->second is read while |it| is solution.end(): undefined.
\* The run dies, or the read yields some pair of boards and the run goes on.
PrintDerefEnd ==
  /\ pc \in {"print_first", "print_loop"}
  /\ it.end
  /\ \/ pc' = "crashed" /\ UNCHANGED <<it, derefs>>
     \/ /\ derefs < MaxDerefs
        /\ derefs' = derefs + 1
        /\ \E f \in Garbage, s \in Garbage :
             it' = [end |-> FALSE, first |-> f, second |-> s]
        /\ UNCHANGED pc
  /\ UNCHANGED <<initial, labels, graph, states_to_explore, queue, solution,
                 printed, deviated, narg, nres, pushes>>

Next ==
  \/ GenerateGraphStart
  \/ AddNeighbors
  \/ GenerateGraphReturn
  \/ SolveSeed
  \/ SolveStep
  \/ SolveReturn
  \/ PrintStart
  \/ PrintFirst
  \/ PrintLoop
  \/ PrintDerefEnd

Spec == Init /\ [][Next]_vars

\* main on a starting arrangement with few reachable states.
InitSmall ==
  /\ pc = "main"
  /\ initial \in {SmallBoards[b] : b \in 1 .. NumSmall}
  /\ labels = {}
  /\ graph = NoMap
  /\ states_to_explore = {}
  /\ queue = << >>
  /\ solution = NoMap
  /\ it = End
  /\ printed = << >>
  /\ derefs = 0
  /\ deviated = FALSE
  /\ pushes = << >>
  /\ narg = NoNormalize
  /\ nres = NoResult

SpecSmall == InitSmall /\ [][Next]_vars

\* main runs on unless it has ended or died: a step that can be taken is taken.
FairSpec == InitSmall /\ [][Next]_vars /\ WF_vars(Next)

----------------------------------------------------------------------------
\* GenerateGraph over a work-set that hands out its elements in any order.

InitAnyOrder ==
  /\ pc = "main"
  /\ labels = {}
  /\ graph = NoMap
  /\ states_to_explore = {}
  /\ queue = << >>
  /\ solution = NoMap
  /\ it = End
  /\ printed = << >>
  /\ derefs = 0
  /\ deviated = FALSE
  /\ pushes = << >>
  /\ narg = NoNormalize
  /\ nres = NoResult
  /\ initial \in {SmallBoards[b] : b \in 1 .. NumAnyOrder}

NextAnyOrder == GenerateGraphStart \/ AddNeighborsAny \/ GenerateGraphReturn

SpecAnyOrder == InitAnyOrder /\ [][NextAnyOrder]_vars

----------------------------------------------------------------------------
\* Normalize called on its own.

\* '1', '2', '3'
NormLabels == {49, 50, 51}

LabelPermutations(L) == {f \in [L -> L] : \A x \in L, y \in L : f[x] = f[y] => x = y}

\* The arrangement with every non-empty cell relabelled by p.
Permute(state, p) ==
  [i \in Cells |-> IF state[i] = Empty THEN Empty ELSE p[state[i]]]

\* Arrangements over NormLabels whose blocks lie in the first NormCells cells.
SmallArrangements ==
  { [i \in Cells |-> IF i < NormCells THEN f[i] ELSE Empty] :
      f \in [0 .. (NormCells - 1) -> NormLabels \cup {Empty}] }

NormalizeArgs ==
  { [state |-> a, labs |-> NormLabels, perm |-> p] :
      a \in SmallArrangements, p \in LabelPermutations(NormLabels) }
  \cup
  UNION { { [state |-> Boards[b], labs |-> GatherLabels(Boards[b]), perm |-> p] :
              p \in LabelPermutations(GatherLabels(Boards[b])) } : b \in 1 .. NumInitial }

InitNormalize ==
  /\ pc = "normalize"
  /\ narg \in NormalizeArgs
  /\ nres = NoResult
  /\ initial = AllEmpty
  /\ labels = {}
  /\ graph = NoMap
  /\ states_to_explore = {}
  /\ queue = << >>
  /\ solution = NoMap
  /\ it = End
  /\ printed = << >>
  /\ derefs = 0
  /\ deviated = FALSE
  /\ pushes = << >>

\* Normalize on the arrangement and on its relabelling by narg.perm.
NormalizeCall ==
  /\ pc = "normalize"
  /\ nres' = [nres EXCEPT !.plain = Normalize(narg.state, narg.labs),
                          !.permuted = Normalize(Permute(narg.state, narg.perm), narg.labs)]
  /\ pc' = "normalized"
  /\ UNCHANGED <<initial, labels, graph, states_to_explore, queue, solution,
                 it, printed, derefs, deviated, narg, pushes>>

\* Normalize on its own result.
NormalizeAgain ==
  /\ pc = "normalized"
  /\ nres' = [nres EXCEPT !.again = Normalize(nres.plain, narg.labs)]
  /\ pc' = "renormalized"
  /\ UNCHANGED <<initial, labels, graph, states_to_explore, queue, solution,
                 it, printed, derefs, deviated, narg, pushes>>

NextNormalize == NormalizeCall \/ NormalizeAgain

SpecNormalize == InitNormalize /\ [][NextNormalize]_vars

----------------------------------------------------------------------------
\* Positions of main

\* Solve has returned its map.
SolveReturned == pc \in {"print", "print_first", "print_loop", "done"}

\* The vertices that satisfy the goal predicate.
Goals == {v \in DOMAIN graph : IsSolved(v)}

\* Fewest-edges distance to the nearest goal vertex, by layers: the vertices
\* at distance d+1 are the unseen ones with a neighbor at distance d.
RECURSIVE DistanceFrom(_, _, _)
DistanceFrom(seen, layer, d) ==
  IF layer = {} THEN NoMap
  ELSE LET next == {v \in DOMAIN graph \ seen : graph[v] \cap layer # {}}
       IN [v \in layer |-> d] @@ DistanceFrom(seen \cup next, next, d + 1)

Distance == DistanceFrom(Goals, Goals, 0)

\* Number of lookups in |solution|, starting at v, before a self-mapped goal
\* vertex is reached; -1 if none is reached within |fuel| lookups.
RECURSIVE WalkLength(_, _)
WalkLength(v, fuel) ==
  IF v \notin DOMAIN solution THEN -1
  ELSE IF solution[v] = v THEN (IF IsSolved(v) THEN 0 ELSE -1)
  ELSE IF fuel = 0 THEN -1
  ELSE LET rest == WalkLength(solution[v], fuel - 1)
       IN IF rest < 0 THEN -1 ELSE rest + 1

----------------------------------------------------------------------------
\* C1: after Solve returns, iterating the next-step map from any vertex V
\* reaches a self-mapped goal vertex after exactly d(V) lookups, d(V) being
\* the fewest-edges distance from V to the nearest goal vertex.
C1_ShortestWalk ==
  SolveReturned =>
    LET dist == Distance IN
      \A v \in DOMAIN graph :
        /\ v \in DOMAIN dist
        /\ WalkLength(v, Cardinality(DOMAIN graph)) = dist[v]

\* Solve has returned a map in which some vertex is twenty steps from a goal.
C1_Witness ==
  /\ SolveReturned
  /\ \E v \in DOMAIN graph :
       /\ v \in DOMAIN Distance
       /\ Distance[v] >= 20
       /\ WalkLength(v, Cardinality(DOMAIN graph)) = Distance[v]

\* C2: when GenerateGraph returns (pc = "solve"; the graph is read-only from
\* then on) the graph is closed under the move
\* relation: the normalized result of every feasible slide from a vertex is a
\* vertex and a neighbor of it, and the normalized initial arrangement is a
\* vertex.
C2_Closed ==
  pc = "solve" =>
    /\ Normalize(initial, labels) \in DOMAIN graph
    /\ \A v \in DOMAIN graph : \A label \in labels : \A d \in Directions :
         CanMove(v, label, d) =>
           LET n == Normalize(Slide(v, label, d), labels)
           IN n \in DOMAIN graph /\ n \in graph[v]

\* A graph of more than a hundred vertices has been returned, and a block of
\* some vertex can slide down.
C2_Witness ==
  /\ pc = "solve"
  /\ Cardinality(DOMAIN graph) > 100
  /\ \E v \in DOMAIN graph : \E label \in labels : CanMove(v, label, "BOTTOM")

\* C3: Normalize is confluent under relabelling: an arrangement and its
\* relabelling by any permutation of the label set normalize to the same
\* arrangement.
C3_Confluent ==
  pc \in {"normalized", "renormalized"} => nres.plain = nres.permuted

\* Normalize has changed an arrangement and has changed its relabelling by a
\* permutation that moved some of its labels, and the two results agree.
C3_Witness ==
  /\ pc = "normalized"
  /\ Permute(narg.state, narg.perm) # narg.state
  /\ nres.plain # narg.state
  /\ nres.permuted # Permute(narg.state, narg.perm)
  /\ nres.plain = nres.permuted

\* C4 as stated: whenever Solve's frontier empties, the key set of the
\* next-step map is the vertex set of the graph.
C4_AlwaysCovers ==
  (pc = "bfs" /\ queue = << >>) => DOMAIN solution = DOMAIN graph

\* C4 amended: when Solve's frontier empties over a graph that has a goal
\* vertex, the key set of the next-step map is the vertex set of the graph;
\* the size assertion fails only over a graph without goal vertex.
C4_CoversWhenGoal ==
  /\ (pc = "bfs" /\ queue = << >> /\ Goals # {}) => DOMAIN solution = DOMAIN graph
  /\ pc = "abort_size" => Goals = {}

\* The frontier has emptied over a graph of more than a hundred vertices,
\* some of them goals.
C4_Witness ==
  /\ pc = "bfs"
  /\ queue = << >>
  /\ Goals # {}
  /\ Cardinality(DOMAIN graph) > 100
  /\ DOMAIN solution = DOMAIN graph

\* C5: after Solve returns, every vertex that is no goal is mapped to one of
\* its own neighbors, and a vertex is mapped to itself iff it is a goal.
C5_NextIsNeighbor ==
  SolveReturned =>
    \A v \in DOMAIN graph :
      /\ v \in DOMAIN solution
      /\ ~IsSolved(v) => solution[v] \in graph[v]
      /\ (solution[v] = v) <=> IsSolved(v)

\* Solve has returned a map with a self-mapped goal and with a vertex mapped
\* to a neighbor that is no goal either.
C5_Witness ==
  /\ SolveReturned
  /\ \E v \in DOMAIN solution : IsSolved(v) /\ solution[v] = v
  /\ \E v \in DOMAIN solution :
       ~IsSolved(v) /\ ~IsSolved(solution[v]) /\ solution[v] \in graph[v]

\* The label, in the normalized result of sliding |label| of a towards d, of
\* the block that was slid.
SlidLabel(a, label, d) ==
  LET cell == Move(d, CHOOSE i \in Cells : a[i] = label)
  IN Normalize(Slide(a, label, d), labels)[cell]

\* C6: in the final graph adjacency is symmetric, and the block slid from a
\* vertex A to reach B can slide back in B, which normalizes to A.
C6_Symmetric ==
  pc = "solve" =>
    /\ \A a \in DOMAIN graph : \A b \in graph[a] :
         b \in DOMAIN graph /\ a \in graph[b]
    /\ \A a \in DOMAIN graph : \A label \in labels : \A d \in Directions :
         CanMove(a, label, d) =>
           LET b    == Normalize(Slide(a, label, d), labels)
               back == SlidLabel(a, label, d)
           IN /\ CanMove(b, back, Opposite(d))
              /\ Normalize(Slide(b, back, Opposite(d)), labels) = a

\* The final graph has an edge made by a slide whose result had to be
\* relabelled, so that the block slides back under another label.
C6_Witness ==
  /\ pc = "solve"
  /\ \E a \in DOMAIN graph : \E label \in labels : \E d \in Directions :
       /\ CanMove(a, label, d)
       /\ SlidLabel(a, label, d) # label
       /\ a \in graph[Normalize(Slide(a, label, d), labels)]

\* C7: Normalize is idempotent: normalizing a normalized arrangement changes
\* no cell.
C7_Idempotent ==
  pc = "renormalized" => nres.again = nres.plain

\* Normalize has been applied to its own result, after changing its argument.
C7_Witness ==
  /\ pc = "renormalized"
  /\ nres.plain # narg.state
  /\ nres.again = nres.plain

\* C8: graph construction terminates: the work-set becomes empty and the
\* loop of GenerateGraph exits.
C8_Terminates == <>(pc = "solve" /\ states_to_explore = {})

\* GenerateGraph has left its loop with a graph of more than fifteen vertices.
C8_Witness ==
  /\ pc = "solve"
  /\ states_to_explore = {}
  /\ Cardinality(DOMAIN graph) > 15

\* C9: the graph built by removing any pending state at each step is the
\* graph built by always removing the smallest one.
C9_OrderIndependent ==
  pc = "solve" =>
    LET byOrder == GenerateGraph(initial)
    IN byOrder.ok /\ graph = byOrder.graph

\* A graph has been built with some removal that was not the smallest
\* pending state, and it is the graph of the smallest-first order.
C9_Witness ==
  /\ pc = "solve"
  /\ deviated
  /\ Cardinality(DOMAIN graph) > 8
  /\ graph = GenerateGraph(initial).graph

\* C10: Print is started from the normalized initial arrangement, a key of
\* the next-step map, so its first lookup and every later one find an entry.
C10_LookupsFind ==
  pc \in {"print_first", "print_loop"} =>
    /\ ~it.end
    /\ it.first \in DOMAIN solution
    /\ printed # << >> => printed[1] = Normalize(initial, labels)

\* C11: a lookup in Print that finds no entry ends the run in a fatal error
\* at that lookup: no run goes on after reading through the past-the-end
\* iterator (derefs counts the reads through end() that a run survived).
C11_AbsentLookupIsFatal ==
  derefs = 0

\* C12: during graph construction the work-set and the set of graph vertices
\* are disjoint, so the state AddNeighbors removes is no vertex yet and
\* assert(success) never fails.
C12_ExpandedOnce ==
  /\ pc # "abort_insert"
  /\ pc = "generate" => states_to_explore \cap DOMAIN graph = {}

\* The traversal is under way over more than a hundred vertices, with states
\* pending, and a slide from a vertex has led back to a known vertex.
C12_Witness ==
  /\ pc = "generate"
  /\ Cardinality(DOMAIN graph) > 100
  /\ states_to_explore # {}
  /\ \E v \in DOMAIN graph : graph[v] \cap DOMAIN graph # {}

----------------------------------------------------------------------------
\* The board as rows and columns.

Row(i) == i \div Width
Col(i) == i % Width
LastRow == (Size \div Width) - 1
LastCol == Width - 1

\* Cell i lies on the d-most edge of the board.
OnEdge(d, i) ==
  CASE d = "LEFT" -> Col(i) = 0
    [] d = "RIGHT" -> Col(i) = LastCol
    [] d = "TOP" -> Row(i) = 0
    [] d = "BOTTOM" -> Row(i) = LastRow

\* The cell one step from cell i towards d (i not on the d-most edge).
Towards(d, i) ==
  CASE d = "LEFT" -> Row(i) * Width + (Col(i) - 1)
    [] d = "RIGHT" -> Row(i) * Width + (Col(i) + 1)
    [] d = "TOP" -> (Row(i) - 1) * Width + Col(i)
    [] d = "BOTTOM" -> (Row(i) + 1) * Width + Col(i)

\* Block |label| of s may slide one cell towards d.
Feasible(s, label, d) ==
  \A i \in Cells :
    s[i] = label => (~OnEdge(d, i) /\ s[Towards(d, i)] \in {Empty, label})

\* C13: AddNeighbors generates the slide of block L towards D from a state
\* iff no cell of L is on the D-most edge of the board and every cell
\* adjacent towards D to a cell of L is empty or of L.
C13_SlideIffFeasible ==
  pc = "solve" =>
    \A v \in DOMAIN graph :
      /\ \A label \in labels : \A d \in Directions :
           CanMove(v, label, d) <=> Feasible(v, label, d)
      /\ graph[v] =
           { Normalize(Slide(v, m[1], m[2]), labels) :
               m \in {x \in labels \X Directions : Feasible(v, x[1], x[2])} }

\* A vertex has a block of several cells that can slide one way, is stopped
\* by the edge of the board another way and by another block a third way.
C13_Witness ==
  /\ pc = "solve"
  /\ \E v \in DOMAIN graph : \E label \in labels :
       /\ Cardinality(Indices(v, label)) > 1
       /\ \E d \in Directions :
            /\ CanMove(v, label, d)
            /\ \E i \in Indices(v, label) : v[Move(d, i)] = label
       /\ \E d \in Directions :
            /\ ~CanMove(v, label, d)
            /\ \E i \in Indices(v, label) : OnEdge(d, i)
       /\ \E d \in Directions :
            /\ ~CanMove(v, label, d)
            /\ \A i \in Indices(v, label) : ~OnEdge(d, i)

\* C14: before normalization, the result of a feasible slide of L towards D
\* has L in exactly the shifted cells of L, is empty in the former cells of
\* L that are no shifted cell, and equals the current state elsewhere.
C14_SlideFrame ==
  pc = "solve" =>
    \A v \in DOMAIN graph : \A label \in labels : \A d \in Directions :
      CanMove(v, label, d) =>
        LET newstate == Slide(v, label, d)
            old      == {i \in Cells : v[i] = label}
            new      == {Towards(d, i) : i \in old}
        IN /\ {i \in Cells : newstate[i] = label} = new
           /\ \A i \in old \ new : newstate[i] = Empty
           /\ \A i \in Cells \ (old \cup new) : newstate[i] = v[i]

\* A block of several cells has slid along its own length: some of its
\* former cells are occupied again and some are left empty.
C14_Witness ==
  /\ pc = "solve"
  /\ \E v \in DOMAIN graph : \E label \in labels : \E d \in Directions :
       /\ CanMove(v, label, d)
       /\ LET old == Indices(v, label)
              new == {Move(d, i) : i \in old}
          IN /\ old \cap new # {}
             /\ old \ new # {}
             /\ Normalize(Slide(v, label, d), labels) \in graph[v]

\* C15: for an arrangement S whose labels are exactly the label set,
\* Normalize(S) has the empty cells of S, two of its cells share a label iff
\* they share one in S, its labels are the label set, and the k-th distinct
\* label met in a row-major scan is the k-th smallest label of the set.
C15_CanonicalRelabelling ==
  (pc = "normalized" /\ GatherLabels(narg.state) = narg.labs) =>
    LET S == narg.state
        N == nres.plain
    IN /\ \A i \in Cells : N[i] = Empty <=> S[i] = Empty
       /\ \A i \in Cells, j \in Cells : N[i] = N[j] <=> S[i] = S[j]
       /\ {N[i] : i \in Cells} \ {Empty} = narg.labs
       /\ \A i \in Cells :
            (N[i] # Empty /\ \A j \in 0 .. (i - 1) : N[j] # N[i]) =>
              Cardinality({N[j] : j \in 0 .. i} \ {Empty})
                = Cardinality({l \in narg.labs : l <= N[i]})

\* Normalize has relabelled an arrangement of at least three blocks that
\* carries every label of the label set and was not in canonical form.
C15_Witness ==
  /\ pc = "normalized"
  /\ GatherLabels(narg.state) = narg.labs
  /\ Cardinality(narg.labs) >= 3
  /\ nres.plain # narg.state
  /\ \E i \in Cells : narg.state[i] # Empty /\ nres.plain[i] = narg.state[i]

\* C16: Solve pushes states onto the frontier in non-decreasing order of
\* their fewest-edges distance to the nearest goal vertex, and pushes each
\* vertex at most once.
C16_PushOrder ==
  pc = "bfs" =>
    LET dist == Distance IN
      /\ \A k \in 1 .. Len(pushes) : pushes[k] \in DOMAIN dist
      /\ \A k \in 1 .. (Len(pushes) - 1) :
           dist[pushes[k]] <= dist[pushes[k + 1]]
      /\ Cardinality(Range(pushes)) = Len(pushes)

\* Solve has pushed more than a hundred states, the last of them ten or more
\* steps from a goal and right after a state at the same distance.
C16_Witness ==
  /\ pc = "bfs"
  /\ Len(pushes) > 100
  /\ Distance[pushes[Len(pushes)]] >= 10
  /\ Distance[pushes[Len(pushes) - 1]] = Distance[pushes[Len(pushes)]]

\* C17: a step of Solve leaves every entry the next-step map already has as
\* it is, and pushes no state that already has an entry.
C17_EntriesStable ==
  [][ pc = "bfs" =>
        /\ \A v \in DOMAIN solution :
             v \in DOMAIN solution' /\ solution'[v] = solution[v]
        /\ Len(pushes') >= Len(pushes)
        /\ SubSeq(pushes', 1, Len(pushes)) = pushes
        /\ \A k \in (Len(pushes) + 1) .. Len(pushes') :
             pushes'[k] \notin DOMAIN solution ]_vars

\* A popped state v has a neighbor n whose entry was made from a state u that
\* was pushed before v: n was met again when v was popped, and its entry is
\* still u.
C17_Witness ==
  /\ pc = "bfs"
  /\ \E kv \in 1 .. Len(pushes) : \E ku \in 1 .. (kv - 1) :
       LET v == pushes[kv]
           u == pushes[ku]
       IN /\ v \notin Range(queue)
          /\ v \in DOMAIN graph
          /\ \E n \in graph[v] :
               /\ n \in DOMAIN solution
               /\ solution[n] = u
               /\ solution[v] # n
               /\ n # u

\* C18: at every step of the traversal every arrangement in the work-set,
\* every graph vertex and every member of every neighbor set is a fixed
\* point of Normalize.
C18_AllCanonical ==
  pc \in {"generate", "solve"} =>
    \A s \in states_to_explore \cup DOMAIN graph
               \cup UNION {graph[v] : v \in DOMAIN graph} :
      Normalize(s, labels) = s

\* The traversal is under way over more than a hundred vertices, states are
\* pending, and AddNeighbors has stored a neighbor that the slide itself left
\* in a non-canonical labelling.
C18_Witness ==
  /\ pc = "generate"
  /\ Cardinality(DOMAIN graph) > 100
  /\ states_to_explore # {}
  /\ \E v \in DOMAIN graph : \E label \in labels : \E d \in Directions :
       /\ CanMove(v, label, d)
       /\ Normalize(Slide(v, label, d), labels) # Slide(v, label, d)
       /\ Normalize(Slide(v, label, d), labels) \in graph[v]

\* The least element of a non-empty set of integers.
MinOf(S) == CHOOSE x \in S : \A y \in S : x <= y

\* The shape of block |label| of s: its cells as (row, column) offsets from
\* the top row and leftmost column it reaches.
ShapeOf(s, label) ==
  LET cells == {i \in Cells : s[i] = label}
      top   == MinOf({Row(i) : i \in cells})
      left  == MinOf({Col(i) : i \in cells})
  IN {<<Row(i) - top, Col(i) - left>> : i \in cells}

LabelsOf(s) == {s[i] : i \in Cells} \ {Empty}

\* s and t have the same number of blocks of every shape.
SameShapes(s, t) ==
  \A shape \in {ShapeOf(s, l) : l \in LabelsOf(s)}
                 \cup {ShapeOf(t, l) : l \in LabelsOf(t)} :
    Cardinality({l \in LabelsOf(s) : ShapeOf(s, l) = shape})
      = Cardinality({l \in LabelsOf(t) : ShapeOf(t, l) = shape})

\* C19: every graph vertex and every pending state has exactly the labels of
\* the initial arrangement, as many empty cells as it, and the same multiset
\* of block shapes.
C19_SameBlocks ==
  pc \in {"generate", "solve"} =>
    \A s \in states_to_explore \cup DOMAIN graph :
      /\ LabelsOf(s) = LabelsOf(initial)
      /\ Cardinality({i \in Cells : s[i] = Empty})
           = Cardinality({i \in Cells : initial[i] = Empty})
      /\ SameShapes(s, initial)

\* The traversal from an arrangement with two blocks of one shape and blocks
\* of three shapes in all has a vertex, among more than a hundred, whose
\* empty cells are all other cells than the initial ones, and states pending.
C19_Witness ==
  /\ pc = "generate"
  /\ Cardinality(DOMAIN graph) > 100
  /\ states_to_explore # {}
  /\ Cardinality({ShapeOf(initial, l) : l \in LabelsOf(initial)}) >= 3
  /\ \E l \in LabelsOf(initial), m \in LabelsOf(initial) :
       l # m /\ ShapeOf(initial, l) = ShapeOf(initial, m)
  /\ \E v \in DOMAIN graph :
       \A i \in Cells : v[i] = Empty => initial[i] # Empty

\* The cells IsSolved reads.
Target == {13, 14, 17, 18}

\* Block |label| of s covers a 2x2 square of cells.
CoversSquare(s, label) ==
  \E i \in Cells :
    /\ Row(i) < LastRow
    /\ Col(i) < LastCol
    /\ \A j \in {i, i + 1, i + Width, i + Width + 1} : s[j] = label

\* The only blocks of s that cover a 2x2 square are blocks of four cells.
SquaresAreBlocks(s) ==
  \A label \in LabelsOf(s) :
    CoversSquare(s, label) => Cardinality({i \in Cells : s[i] = label}) = 4

\* In vertex v the label of cell 13 is a block label that occupies exactly
\* the cells of Target.
FillsTarget(v) ==
  /\ v[13] # Empty
  /\ {i \in Cells : v[i] = v[13]} = Target

\* C20 as stated: in every graph vertex that satisfies the goal predicate,
\* the label of cells 13, 14, 17 and 18 occupies exactly those four cells.
C20_GoalFillsTarget ==
  pc = "solve" => \A v \in DOMAIN graph : IsSolved(v) => FillsTarget(v)

\* C20 amended: the same, for an initial arrangement in which the only
\* blocks that cover a 2x2 square of cells are 2x2 blocks.
C20_GoalFillsTargetOfSquares ==
  (pc = "solve" /\ SquaresAreBlocks(initial)) =>
    \A v \in DOMAIN graph : IsSolved(v) => FillsTarget(v)

\* From an arrangement of a 2x2 block and other blocks, none larger, a goal
\* vertex has been built in which the 2x2 block fills the target under
\* another label than it has in the initial arrangement.
C20_Witness ==
  /\ pc = "solve"
  /\ SquaresAreBlocks(initial)
  /\ Cardinality(LabelsOf(initial)) >= 3
  /\ \E v \in DOMAIN graph :
       /\ IsSolved(v)
       /\ FillsTarget(v)
       /\ ~CoversSquare(initial, v[13])

====
